---- MODULE Spec2Model ----
(***************************************************************************)
(* Model of scripts/generate_pygmt_images.py: main() runs generate_topo,   *)
(* generate_quakes and generate_globe one after another.  Every statement  *)
(* that calls into pygmt (or imports it) is one step whose outcome, normal *)
(* return or raised exception, is chosen by the environment.  A location   *)
(* "fnNN" is line NN of the script, inside function fn.                    *)
(***************************************************************************)
EXTENDS Integers, Sequences, FiniteSets, TLC

\* longest point dataset the environment hands back from load_earthquakes / load_hotspots
MaxDataset == 2

\* coordinate pairs a loaded dataset is made of
Coords == {<<30, 0>>, <<12, 10>>}

\* values load_earthquakes() / load_hotspots() may return
Datasets == UNION {[1..n -> Coords] : n \in 0..MaxDataset}

\* for res in ("02m", "05m", "10m")
Resolutions == <<"02m", "05m", "10m">>

\* xs = [30, 36, 38, 20, 12]; ys = [0, -3, -11, 5, 10]
QuakeFallback == <<(<<30, 0>>), (<<36, -3>>), (<<38, -11>>), (<<20, 5>>), (<<12, 10>>)>>

\* xs = [31, 39, 15, 50]; ys = [-2, -10, 8, -7]
HotspotFallback == <<(<<31, -2>>), (<<39, -10>>), (<<15, 8>>), (<<50, -7>>)>>

TopoFile == "africa_topography.png"
QuakesFile == "africa_quakes.png"
GlobeFile == "africa_globe_hotspots.png"
FileNames == {TopoFile, QuakesFile, GlobeFile}

\* the order in which main() calls the three generators
TaskOrder == <<"topo", "quakes", "globe">>
Tasks == {"topo", "quakes", "globe"}

VARIABLES
  pc,            \* position in the script
  imported,      \* pygmt is in sys.modules
  res,           \* index of the loop variable res in Resolutions
  fig,           \* layers drawn on the current pygmt.Figure
  data,          \* the local quakes / hotspots
  ok_topo, ok_quakes, ok_globe,   \* "unset", "True" or "False"
  total_ok,
  exitStatus,    \* {} while running, then {status}
  files,         \* file name -> sequence of figures written to it during the run
  started,       \* generators called so far, in order
  finished,      \* generators that have returned, in order
  uncaught,      \* generators an exception propagated out of
  triedRes,      \* resolutions for which "Trying resolution" was reached
  tierOutcome,   \* how each tried resolution ended: "fetch", "render", "save", "ok"
  reliefOutcome, \* quakes/globe: outcome of load_earth_relief ("none", "ok", "raise")
  reliefLoads,   \* quakes/globe: number of load_earth_relief calls made
  pointLog,      \* quakes/globe: the fig.plot attempts <<source, outcome>>
  anyOk,         \* some call into pygmt or dataset load returned normally
  anyRaise       \* some import, call or dataset load raised

vars == <<pc, imported, res, fig, data, ok_topo, ok_quakes, ok_globe, total_ok,
          exitStatus, files, started, finished, uncaught, triedRes, tierOutcome,
          reliefOutcome, reliefLoads, pointLog, anyOk, anyRaise>>

mainVars == <<ok_topo, ok_quakes, ok_globe, total_ok, exitStatus>>
callHist == <<started, uncaught>>
topoHist == <<triedRes, tierOutcome>>
pointHist == <<reliefOutcome, reliefLoads, pointLog>>

Layer(op) == [op |-> op, src |-> "none", pts |-> <<>>]
PlotLayer(src, pts) == [op |-> "plot", src |-> src, pts |-> pts]

CallOk == anyOk' = TRUE /\ anyRaise' = anyRaise
CallRaise == anyRaise' = TRUE /\ anyOk' = anyOk

Init ==
  /\ pc = "main106"
  /\ imported = FALSE
  /\ res = 1
  /\ fig = <<>>
  /\ data = <<>>
  /\ ok_topo = "unset" /\ ok_quakes = "unset" /\ ok_globe = "unset"
  /\ total_ok = 0
  /\ exitStatus = {}
  /\ files = [f \in FileNames |-> <<>>]
  /\ started = <<>>
  /\ finished = <<>>
  /\ uncaught = {}
  /\ triedRes = <<>>
  /\ tierOutcome = <<>>
  /\ reliefOutcome = [t \in {"quakes", "globe"} |-> "none"]
  /\ reliefLoads = [t \in {"quakes", "globe"} |-> 0]
  /\ pointLog = [t \in {"quakes", "globe"} |-> <<>>]
  /\ anyOk = FALSE
  /\ anyRaise = FALSE

\* outcomes of "import pygmt": a module already in sys.modules imports again
ImportOutcomes == IF imported THEN {TRUE} ELSE BOOLEAN

\* import pygmt / from pygmt.datasets import load_earth_relief, outside any try:
\* an ImportError leaves the generator and main(), the interpreter exits with 1
ImportPygmt(task, at, next) ==
  /\ pc = at
  /\ \E r \in ImportOutcomes :
       IF r
       THEN /\ imported' = TRUE
            /\ pc' = next
            /\ UNCHANGED <<uncaught, exitStatus, anyRaise>>
       ELSE /\ imported' = imported
            /\ pc' = "done"
            /\ uncaught' = uncaught \cup {task}
            /\ exitStatus' = {1}
            /\ anyRaise' = TRUE
  /\ UNCHANGED <<res, fig, data, ok_topo, ok_quakes, ok_globe, total_ok, files,
                 started, finished, triedRes, tierOutcome, reliefOutcome,
                 reliefLoads, pointLog, anyOk>>

\* slip: every figure is written under the topography name
save_figure_SameName(name) == files' = [files EXCEPT ![TopoFile] = Append(@, fig)]

\* save_figure(fig, name) returning: the file holds the figure
save_figure(name) == files' = [files EXCEPT ![name] = Append(@, fig)]

(***************************** generate_topo *******************************)

Main_CallTopo ==
  /\ pc = "main106"
  /\ pc' = "topo23"
  /\ started' = Append(started, "topo")
  /\ UNCHANGED <<imported, res, fig, data, mainVars, files, finished, uncaught,
                 topoHist, pointHist, anyOk, anyRaise>>

Topo_Import == ImportPygmt("topo", "topo23", "topo31")

\* slip: after a failed resolution the loop jumps to the coarsest one
TopoExcept_SkipsTier(kind) ==
  /\ tierOutcome' = Append(tierOutcome, kind)
  /\ fig' = <<>>
  /\ IF res < Len(Resolutions)
     THEN /\ res' = Len(Resolutions)
          /\ pc' = "topo31"
          /\ UNCHANGED <<ok_topo, finished>>
     ELSE /\ res' = res
          /\ pc' = "main107"
          /\ ok_topo' = "False"
          /\ finished' = Append(finished, "topo")

\* except Exception (lines 40-42), then the next resolution or return False
TopoExcept(kind) ==
  /\ tierOutcome' = Append(tierOutcome, kind)
  /\ fig' = <<>>
  /\ IF res < Len(Resolutions)
     THEN /\ res' = res + 1
          /\ pc' = "topo31"
          /\ UNCHANGED <<ok_topo, finished>>
     ELSE /\ res' = res
          /\ pc' = "main107"
          /\ ok_topo' = "False"
          /\ finished' = Append(finished, "topo")

\* a drawing call of generate_topo inside the try
TopoDraw(at, next, op) ==
  /\ pc = at
  /\ \E r \in BOOLEAN :
       IF r
       THEN /\ fig' = Append(fig, Layer(op))
            /\ pc' = next
            /\ CallOk
            /\ UNCHANGED <<res, ok_topo, finished, tierOutcome>>
       ELSE TopoExcept("render") /\ CallRaise
  /\ UNCHANGED <<imported, data, ok_quakes, ok_globe, total_ok, exitStatus, files,
                 callHist, triedRes, pointHist>>

\* print("Trying resolution"); grid = load_earth_relief(resolution=res, ...)
Topo_Load ==
  /\ pc = "topo31"
  /\ triedRes' = Append(triedRes, Resolutions[res])
  /\ \E r \in BOOLEAN :
       IF r
       THEN /\ pc' = "topo33"
            /\ CallOk
            /\ UNCHANGED <<res, fig, ok_topo, finished, tierOutcome>>
       ELSE TopoExcept("fetch") /\ CallRaise
  /\ UNCHANGED <<imported, data, ok_quakes, ok_globe, total_ok, exitStatus, files,
                 callHist, pointHist>>

\* fig = pygmt.Figure()
Topo_Figure ==
  /\ pc = "topo33"
  /\ \E r \in BOOLEAN :
       IF r
       THEN /\ fig' = <<>>
            /\ pc' = "topo34"
            /\ CallOk
            /\ UNCHANGED <<res, ok_topo, finished, tierOutcome>>
       ELSE TopoExcept("render") /\ CallRaise
  /\ UNCHANGED <<imported, data, ok_quakes, ok_globe, total_ok, exitStatus, files,
                 callHist, triedRes, pointHist>>

Topo_Basemap == TopoDraw("topo34", "topo35", "basemap")
Topo_Grdimage == TopoDraw("topo35", "topo36", "grdimage")
Topo_Coast == TopoDraw("topo36", "topo37", "coast")
Topo_Colorbar == TopoDraw("topo37", "topo38", "colorbar")

\* slip: the file is written before the failure of the save is noticed
Topo_Save_WritesThenRaises ==
  /\ pc = "topo38"
  /\ save_figure(TopoFile)
  /\ \E r \in BOOLEAN :
       IF r
       THEN /\ tierOutcome' = Append(tierOutcome, "ok")
            /\ ok_topo' = "True"
            /\ finished' = Append(finished, "topo")
            /\ fig' = <<>>
            /\ pc' = "main107"
            /\ res' = res
            /\ CallOk
       ELSE TopoExcept("save") /\ CallRaise
  /\ UNCHANGED <<imported, data, ok_quakes, ok_globe, total_ok, exitStatus,
                 callHist, triedRes, pointHist>>

\* save_figure(fig, "africa_topography.png"); return True
Topo_Save ==
  /\ pc = "topo38"
  /\ \E r \in BOOLEAN :
       IF r
       THEN /\ save_figure(TopoFile)
            /\ tierOutcome' = Append(tierOutcome, "ok")
            /\ ok_topo' = "True"
            /\ finished' = Append(finished, "topo")
            /\ fig' = <<>>
            /\ pc' = "main107"
            /\ res' = res
            /\ CallOk
       ELSE TopoExcept("save") /\ CallRaise /\ UNCHANGED files
  /\ UNCHANGED <<imported, data, ok_quakes, ok_globe, total_ok, exitStatus,
                 callHist, triedRes, pointHist>>

(********************* generate_quakes / generate_globe *********************)

SetOk(task, v) ==
  IF task = "quakes"
  THEN ok_quakes' = v /\ ok_globe' = ok_globe
  ELSE ok_globe' = v /\ ok_quakes' = ok_quakes

\* slip: the outer handler reports success
OuterExcept_ReturnsTrue(task, ret) ==
  /\ SetOk(task, "True")
  /\ finished' = Append(finished, task)
  /\ fig' = <<>>
  /\ data' = <<>>
  /\ pc' = ret

\* the outer except Exception (lines 71-74, 100-103): return False
OuterExcept(task, ret) ==
  /\ SetOk(task, "False")
  /\ finished' = Append(finished, task)
  /\ fig' = <<>>
  /\ data' = <<>>
  /\ pc' = ret

\* slip: a failed fetch is swallowed and the task goes on without a grid
PointLoadRelief_IgnoresFailure(task, at, next, ret) ==
  /\ pc = at
  /\ reliefLoads' = [reliefLoads EXCEPT ![task] = @ + 1]
  /\ \E r \in BOOLEAN :
       /\ reliefOutcome' = [reliefOutcome EXCEPT ![task] = IF r THEN "ok" ELSE "raise"]
       /\ pc' = next
       /\ IF r THEN CallOk ELSE CallRaise
       /\ UNCHANGED <<fig, data, ok_quakes, ok_globe, finished>>
  /\ UNCHANGED <<imported, res, ok_topo, total_ok, exitStatus, files, callHist,
                 topoHist, pointLog>>

\* grid = load_earth_relief(resolution="05m", region=region)
PointLoadRelief(task, at, next, ret) ==
  /\ pc = at
  /\ reliefLoads' = [reliefLoads EXCEPT ![task] = @ + 1]
  /\ \E r \in BOOLEAN :
       IF r
       THEN /\ reliefOutcome' = [reliefOutcome EXCEPT ![task] = "ok"]
            /\ pc' = next
            /\ CallOk
            /\ UNCHANGED <<fig, data, ok_quakes, ok_globe, finished>>
       ELSE /\ reliefOutcome' = [reliefOutcome EXCEPT ![task] = "raise"]
            /\ OuterExcept(task, ret)
            /\ CallRaise
  /\ UNCHANGED <<imported, res, ok_topo, total_ok, exitStatus, files, callHist,
                 topoHist, pointLog>>

\* fig = pygmt.Figure()
PointFigure(task, at, next, ret) ==
  /\ pc = at
  /\ \E r \in BOOLEAN :
       IF r
       THEN /\ fig' = <<>>
            /\ pc' = next
            /\ CallOk
            /\ UNCHANGED <<data, ok_quakes, ok_globe, finished>>
       ELSE OuterExcept(task, ret) /\ CallRaise
  /\ UNCHANGED <<imported, res, ok_topo, total_ok, exitStatus, files, callHist,
                 topoHist, pointHist>>

\* fig.basemap(...) / fig.grdimage(...) inside the outer try
PointDraw(task, at, next, op, ret) ==
  /\ pc = at
  /\ \E r \in BOOLEAN :
       IF r
       THEN /\ fig' = Append(fig, Layer(op))
            /\ pc' = next
            /\ CallOk
            /\ UNCHANGED <<data, ok_quakes, ok_globe, finished>>
       ELSE OuterExcept(task, ret) /\ CallRaise
  /\ UNCHANGED <<imported, res, ok_topo, total_ok, exitStatus, files, callHist,
                 topoHist, pointHist>>

\* the inner except Exception (lines 62-63, 92-93): go on to the example points
InnerExcept(task, fallbackAt) ==
  /\ pointLog' = [pointLog EXCEPT ![task] = Append(@, <<"real", "raise">>)]
  /\ pc' = fallbackAt
  /\ data' = <<>>
  /\ fig' = fig

\* from pygmt.datasets import load_earthquakes / load_hotspots, inside the inner try
PointImportReal(task, at, next, fallbackAt) ==
  /\ pc = at
  /\ \E r \in BOOLEAN :
       IF r
       THEN /\ pc' = next
            /\ UNCHANGED <<fig, data, pointLog, anyRaise>>
       ELSE InnerExcept(task, fallbackAt) /\ anyRaise' = TRUE
  /\ UNCHANGED <<imported, res, mainVars, files, callHist, finished, topoHist,
                 reliefOutcome, reliefLoads, anyOk>>

\* quakes = load_earthquakes() / hotspots = load_hotspots()
PointLoadReal(task, at, next, fallbackAt) ==
  /\ pc = at
  /\ \/ \E d \in Datasets :
          /\ data' = d
          /\ pc' = next
          /\ CallOk
          /\ UNCHANGED <<fig, pointLog>>
     \/ InnerExcept(task, fallbackAt) /\ CallRaise
  /\ UNCHANGED <<imported, res, mainVars, files, callHist, finished, topoHist,
                 reliefOutcome, reliefLoads>>

\* fig.plot(x=quakes.longitude, y=quakes.latitude, ...) and its hotspots twin
PointPlotReal(task, at, next, fallbackAt) ==
  /\ pc = at
  /\ \E r \in BOOLEAN :
       IF r
       THEN /\ fig' = Append(fig, PlotLayer("real", data))
            /\ pointLog' = [pointLog EXCEPT ![task] = Append(@, <<"real", "ok">>)]
            /\ pc' = next
            /\ data' = data
            /\ CallOk
       ELSE InnerExcept(task, fallbackAt) /\ CallRaise
  /\ UNCHANGED <<imported, res, mainVars, files, callHist, finished, topoHist,
                 reliefOutcome, reliefLoads>>

\* slip: the last example point is left out
PointPlotFallback_DropsPoint(task, at, next, pts, ret) ==
  /\ pc = at
  /\ \E r \in BOOLEAN :
       IF r
       THEN /\ fig' = Append(fig, PlotLayer("fallback", SubSeq(pts, 1, Len(pts) - 1)))
            /\ pointLog' = [pointLog EXCEPT ![task] = Append(@, <<"fallback", "ok">>)]
            /\ pc' = next
            /\ CallOk
            /\ UNCHANGED <<data, ok_quakes, ok_globe, finished>>
       ELSE /\ pointLog' = [pointLog EXCEPT ![task] = Append(@, <<"fallback", "raise">>)]
            /\ OuterExcept(task, ret)
            /\ CallRaise
  /\ UNCHANGED <<imported, res, ok_topo, total_ok, exitStatus, files, callHist,
                 topoHist, reliefOutcome, reliefLoads>>

\* fig.plot(x=xs, y=ys, ...) in the inner handler, still inside the outer try
PointPlotFallback(task, at, next, pts, ret) ==
  /\ pc = at
  /\ \E r \in BOOLEAN :
       IF r
       THEN /\ fig' = Append(fig, PlotLayer("fallback", pts))
            /\ pointLog' = [pointLog EXCEPT ![task] = Append(@, <<"fallback", "ok">>)]
            /\ pc' = next
            /\ CallOk
            /\ UNCHANGED <<data, ok_quakes, ok_globe, finished>>
       ELSE /\ pointLog' = [pointLog EXCEPT ![task] = Append(@, <<"fallback", "raise">>)]
            /\ OuterExcept(task, ret)
            /\ CallRaise
  /\ UNCHANGED <<imported, res, ok_topo, total_ok, exitStatus, files, callHist,
                 topoHist, reliefOutcome, reliefLoads>>

\* save_figure(fig, name); return True
PointSave(task, at, name, ret) ==
  /\ pc = at
  /\ \E r \in BOOLEAN :
       IF r
       THEN /\ save_figure(name)
            /\ SetOk(task, "True")
            /\ finished' = Append(finished, task)
            /\ fig' = <<>>
            /\ data' = <<>>
            /\ pc' = ret
            /\ CallOk
       ELSE OuterExcept(task, ret) /\ CallRaise /\ UNCHANGED files
  /\ UNCHANGED <<imported, res, ok_topo, total_ok, exitStatus, callHist,
                 topoHist, pointHist>>

Main_CallQuakes ==
  /\ pc = "main107"
  /\ pc' = "quakes46"
  /\ started' = Append(started, "quakes")
  /\ UNCHANGED <<imported, res, fig, data, mainVars, files, finished, uncaught,
                 topoHist, pointHist, anyOk, anyRaise>>

Quakes_Import == ImportPygmt("quakes", "quakes46", "quakes52")
Quakes_Load == PointLoadRelief("quakes", "quakes52", "quakes53", "main108")
Quakes_Figure == PointFigure("quakes", "quakes53", "quakes54", "main108")
Quakes_Grdimage == PointDraw("quakes", "quakes54", "quakes58", "grdimage", "main108")
Quakes_ImportReal == PointImportReal("quakes", "quakes58", "quakes59", "quakes63")
Quakes_LoadReal == PointLoadReal("quakes", "quakes59", "quakes60", "quakes63")
Quakes_PlotReal == PointPlotReal("quakes", "quakes60", "quakes69", "quakes63")
Quakes_PlotFallback == PointPlotFallback("quakes", "quakes63", "quakes69", QuakeFallback, "main108")
Quakes_Save == PointSave("quakes", "quakes69", QuakesFile, "main108")

Main_CallGlobe ==
  /\ pc = "main108"
  /\ pc' = "globe77"
  /\ started' = Append(started, "globe")
  /\ UNCHANGED <<imported, res, fig, data, mainVars, files, finished, uncaught,
                 topoHist, pointHist, anyOk, anyRaise>>

Globe_Import == ImportPygmt("globe", "globe77", "globe83")
Globe_Figure == PointFigure("globe", "globe83", "globe84", "main110")
Globe_Basemap == PointDraw("globe", "globe84", "globe85", "basemap", "main110")
Globe_Load == PointLoadRelief("globe", "globe85", "globe86", "main110")
Globe_Grdimage == PointDraw("globe", "globe86", "globe89", "grdimage", "main110")
Globe_ImportReal == PointImportReal("globe", "globe89", "globe90", "globe93")
Globe_LoadReal == PointLoadReal("globe", "globe90", "globe91", "globe93")
Globe_PlotReal == PointPlotReal("globe", "globe91", "globe98", "globe93")
Globe_PlotFallback == PointPlotFallback("globe", "globe93", "globe98", HotspotFallback, "main110")
Globe_Save == PointSave("globe", "globe98", GlobeFile, "main110")

(********************************* main ************************************)

\* Python's int(bool) as used by sum([...])
BoolToInt(b) == IF b = "True" THEN 1 ELSE 0

\* total_ok = sum([ok_topo, ok_quakes, ok_globe]); print("Finished: ...")
Main_Sum ==
  /\ pc = "main110"
  /\ total_ok' = BoolToInt(ok_topo) + BoolToInt(ok_quakes) + BoolToInt(ok_globe)
  /\ pc' = "main114"
  /\ UNCHANGED <<imported, res, fig, data, ok_topo, ok_quakes, ok_globe,
                 exitStatus, files, started, finished, uncaught, topoHist,
                 pointHist, anyOk, anyRaise>>

\* if total_ok == 0: sys.exit(2); otherwise main() returns and the status is 0
Main_Exit ==
  /\ pc = "main114"
  /\ exitStatus' = IF total_ok = 0 THEN {2} ELSE {0}
  /\ pc' = "done"
  /\ UNCHANGED <<imported, res, fig, data, ok_topo, ok_quakes, ok_globe,
                 total_ok, files, started, finished, uncaught, topoHist,
                 pointHist, anyOk, anyRaise>>

Next ==
  \/ Main_CallTopo
  \/ Topo_Import
  \/ Topo_Load
  \/ Topo_Figure
  \/ Topo_Basemap
  \/ Topo_Grdimage
  \/ Topo_Coast
  \/ Topo_Colorbar
  \/ Topo_Save
  \/ Main_CallQuakes
  \/ Quakes_Import
  \/ Quakes_Load
  \/ Quakes_Figure
  \/ Quakes_Grdimage
  \/ Quakes_ImportReal
  \/ Quakes_LoadReal
  \/ Quakes_PlotReal
  \/ Quakes_PlotFallback
  \/ Quakes_Save
  \/ Main_CallGlobe
  \/ Globe_Import
  \/ Globe_Figure
  \/ Globe_Basemap
  \/ Globe_Load
  \/ Globe_Grdimage
  \/ Globe_ImportReal
  \/ Globe_LoadReal
  \/ Globe_PlotReal
  \/ Globe_PlotFallback
  \/ Globe_Save
  \/ Main_Sum
  \/ Main_Exit

Spec == Init /\ [][Next]_vars
(******************************* properties ********************************)

Done == pc = "done"
Written(f) == Len(files[f])
FilesWritten == Written(TopoFile) + Written(QuakesFile) + Written(GlobeFile)
AllFalse == ok_topo = "False" /\ ok_quakes = "False" /\ ok_globe = "False"
IsPrefix(s, t) == Len(s) <= Len(t) /\ \A i \in 1..Len(s) : s[i] = t[i]
Returned(t) == \E i \in 1..Len(finished) : finished[i] = t
Ok(t) == IF t = "quakes" THEN ok_quakes ELSE ok_globe
FileOf(t) == IF t = "quakes" THEN QuakesFile ELSE GlobeFile
FallbackOf(t) == IF t = "quakes" THEN QuakeFallback ELSE HotspotFallback
PointTasks == {"quakes", "globe"}
TierFailures == {"fetch", "render", "save"}
\* the marker lists of a figure, in drawing order
RECURSIVE Markers(_)
Markers(f) ==
  IF f = <<>> THEN <<>>
  ELSE IF Head(f).op = "plot" THEN <<Head(f).pts>> \o Markers(Tail(f))
       ELSE Markers(Tail(f))
\* the real point dataset of task t was tried and raised (import, load or plot)
RealFailed(t) == Len(pointLog[t]) >= 1 /\ pointLog[t][1] = <<"real", "raise">>

\* C1: when the process has ended, its status is 0 if a file was written and 2
\* if none was, and status 2 is reached exactly when all three generators
\* returned False.
C1_ExitStatus ==
  Done => /\ FilesWritten > 0 => exitStatus = {0}
          /\ FilesWritten = 0 => exitStatus = {2}
          /\ exitStatus = {2} <=> AllFalse

\* C2: the generators are called in the order topo, quakes, globe, each only
\* after the previous one has finished, and by the end of every run all three
\* have been called.
C2_AllTasksAttempted ==
  /\ IsPrefix(started, TaskOrder)
  /\ Len(started) <= Len(finished) + 1
  /\ Done => started = TaskOrder

\* C3: when the summary line has been printed, total_ok equals the number of
\* files written during the run.
C3_CountEqualsFiles ==
  pc = "main114" => total_ok = FilesWritten

\* a run with a failing savefig in topo (then a coarser tier succeeds) and in
\* quakes (after the real points were plotted) reaches the summary
C3_Witness ==
  /\ pc = "main114"
  /\ total_ok = 1
  /\ tierOutcome = <<"save", "render", "ok">>
  /\ ok_quakes = "False"
  /\ pointLog["quakes"] = <<(<<"real", "ok">>)>>

\* C4: when the process has ended and no call into pygmt and no dataset load
\* returned normally, no file was written and the exit status is 2.
C4_AllFail ==
  (Done /\ ~anyOk) => (FilesWritten = 0 /\ exitStatus = {2})

\* C5: no exception propagates out of a generator; the process ends with
\* status 0, or with status 2 when all three generators returned False.
C5_NoExceptionEscapes ==
  /\ uncaught = {}
  /\ exitStatus \subseteq {0, 2}
  /\ exitStatus = {2} => AllFalse

\* C6: the resolutions are tried in the order 02m, 05m, 10m; a resolution is
\* tried only after every finer one was tried and failed, none is tried after
\* one succeeded, and generate_topo returns False exactly when all three failed.
C6_TierOrder ==
  /\ IsPrefix(triedRes, Resolutions)
  /\ Len(tierOutcome) <= Len(triedRes)
  /\ \A i \in 1..Len(triedRes) : \A j \in 1..(i - 1) :
       j <= Len(tierOutcome) /\ tierOutcome[j] \in TierFailures
  /\ \A i \in 1..Len(tierOutcome) : tierOutcome[i] = "ok" => i = Len(triedRes)
  /\ ok_topo = "False" <=>
       /\ triedRes = Resolutions
       /\ Len(tierOutcome) = Len(Resolutions)
       /\ \A i \in 1..Len(tierOutcome) : tierOutcome[i] \in TierFailures
  /\ ok_topo = "True" <=>
       /\ tierOutcome # <<>>
       /\ tierOutcome[Len(tierOutcome)] = "ok"

\* the finest tier failed in the fetch, the second in the save, the third succeeded
C6_Witness ==
  /\ ok_topo = "True"
  /\ triedRes = <<"02m", "05m", "10m">>
  /\ tierOutcome = <<"fetch", "save", "ok">>

\* C7: generate_topo returning True has written africa_topography.png exactly
\* once, and returning False has written nothing; before it returns nothing
\* is written, and it writes no other file.
C7_TopoOneFileOrNone ==
  /\ ok_topo = "True" => Written(TopoFile) = 1
  /\ ok_topo = "False" => Written(TopoFile) = 0
  /\ ok_topo = "unset" => Written(TopoFile) = 0
  /\ pc = "main107" => FilesWritten = Written(TopoFile)

C7_Witness ==
  /\ ok_topo = "True"
  /\ tierOutcome = <<"render", "ok">>
  /\ Written(TopoFile) = 1

\* C8 as stated: once quakes or globe has returned after its real point
\* dataset raised, it has returned True, written its file, and the markers in
\* the file are exactly the fallback list.
C8_FallbackAlwaysSucceeds ==
  \A t \in PointTasks :
    (Returned(t) /\ RealFailed(t)) =>
      /\ Ok(t) = "True"
      /\ Written(FileOf(t)) = 1
      /\ Markers(files[FileOf(t)][1]) = <<FallbackOf(t)>>

\* C8 amended: after the real point dataset raised, the only further plot is
\* the fallback list (5 pairs for quakes, 4 for globe); the task returns True
\* exactly when that plot and the save both returned, and the file then holds
\* exactly the fallback markers; the fallback list is plotted in no other case.
C8_FallbackPoints ==
  /\ Len(QuakeFallback) = 5
  /\ Len(HotspotFallback) = 4
  /\ \A t \in PointTasks :
       /\ (Returned(t) /\ RealFailed(t)) =>
            /\ Len(pointLog[t]) = 2
            /\ pointLog[t][2][1] = "fallback"
            /\ Ok(t) = "True" <=>
                 (pointLog[t][2][2] = "ok" /\ Written(FileOf(t)) = 1)
            /\ Ok(t) = "True" =>
                 Markers(files[FileOf(t)][1]) = <<FallbackOf(t)>>
            /\ Ok(t) = "False" => Written(FileOf(t)) = 0
       /\ \A i \in 1..Len(pointLog[t]) :
            pointLog[t][i][1] = "fallback" => (i = 2 /\ RealFailed(t))
       /\ \A i \in 1..Written(FileOf(t)) :
            (\E k \in 1..Len(files[FileOf(t)][i]) :
               files[FileOf(t)][i][k].src = "fallback") => RealFailed(t)

\* quakes fell back and succeeded; globe fell back, plotted, and failed in the save
C8_Witness ==
  /\ ok_quakes = "True"
  /\ RealFailed("quakes")
  /\ Markers(files[QuakesFile][1]) = <<QuakeFallback>>
  /\ ok_globe = "False"
  /\ pointLog["globe"] = <<(<<"real", "raise">>), (<<"fallback", "ok">>)>>

\* C9: generate_quakes calls load_earth_relief at most once, exactly once by
\* the time it returns; when that call raised, the task returned False, tried
\* no point dataset and wrote no file.
C9_QuakesSingleFetch ==
  /\ reliefLoads["quakes"] <= 1
  /\ Returned("quakes") => reliefLoads["quakes"] = 1
  /\ reliefOutcome["quakes"] = "raise" =>
       /\ ok_quakes = "False"
       /\ pointLog["quakes"] = <<>>
       /\ Written(QuakesFile) = 0

C9_Witness ==
  /\ pc = "main108"
  /\ reliefOutcome["quakes"] = "raise"
  /\ ok_quakes = "False"
  /\ reliefLoads["quakes"] = 1

\* C10: a run in which nothing raised ends with each of the three files
\* written once, total_ok = 3, only the finest resolution tried, and no
\* fallback point list plotted.
C10_AllAvailable ==
  (Done /\ ~anyRaise) =>
    /\ \A f \in FileNames : Written(f) = 1
    /\ total_ok = 3
    /\ triedRes = <<Resolutions[1]>>
    /\ tierOutcome = <<"ok">>
    /\ \A t \in PointTasks : pointLog[t] = <<(<<"real", "ok">>)>>
    /\ \A f \in FileNames : \A k \in 1..Len(files[f][1]) : files[f][1][k].src # "fallback"

C10_Witness ==
  /\ Done
  /\ ~anyRaise
  /\ total_ok = 3
  /\ Len(Markers(files[QuakesFile][1])[1]) = MaxDataset

====
